---- MODULE Spec2Model ----
(***************************************************************************)
(* Model of the acr122u reader polling engine (Context.read), the wait     *)
(* step (Context.waitForStatusChange), the card session sequence           *)
(* (Context.readCardData) and the dispatch loop (Context.Serve).           *)
(*                                                                         *)
(* Two threads of control exist: the goroutine running Context.read and    *)
(* the caller's goroutine running Context.Serve.  They share the buffered  *)
(* channel stateChan and the cancellation token ctx.                       *)
(***************************************************************************)
EXTENDS Integers, Sequences, FiniteSets, TLC

\* ---------------------------------------------------------------- bounds
NumReaders == 2     \* len(actx.readers)
MaxWaits   == 2     \* GetStatusChange calls that are answered before cancellation
MaxUid     == 2     \* distinct card identifiers the middleware can return

\* ------------------------------------------------------- program constants
ChanCap == 1        \* make(chan scard.ReaderState, 1)

\* ------------------------------------------------------------ state flags
StatePresent == "Present"
StateInuse   == "Inuse"
StateUnaware == {}
StateFlags   == {StateUnaware, {StatePresent}, {StatePresent, StateInuse}}

\* ----------------------------------------------------------------- errors
\* An error value is the chain of messages/sentinels obtained by repeatedly
\* unwrapping it; nil is the empty chain.
Nil                  == <<>>
ErrShutdown          == <<"ErrShutdown">>
ErrUnhandledCardData == <<"ErrUnhandledCardData">>
ErrOperationFailed   == <<"ErrOperationFailed">>
ErrTimeout           == <<"ErrTimeout">>
ErrNoSmartcard       == <<"ErrNoSmartcard">>
ErrUnpoweredCard     == <<"ErrUnpoweredCard">>
ErrRemovedCard       == <<"ErrRemovedCard">>
ErrUnknownError      == <<"ErrUnknownError">>
ErrInternalError     == <<"ErrInternalError">>
ErrInvalidHandle     == <<"ErrInvalidHandle">>
ErrNoReadersAvailable == <<"ErrNoReadersAvailable">>

\* fmt.Errorf("%v [%v]", message, err): a new error that wraps nothing
wrapErrorNoChain(message, e) == <<message>>

\* fmt.Errorf("%v [%w]", message, err): a new error that wraps err
wrapError(message, e) == <<message>> \o e

\* errors.Is(e, target): target occurs in the unwrap chain of e
ErrorsIs(e, target) == \E k \in 1..Len(e) : SubSeq(e, k, Len(e)) = target

\* outcomes the middleware can produce
WaitErrors       == {ErrTimeout, ErrUnknownError}
ConnectErrors    == {ErrNoSmartcard, ErrUnpoweredCard, ErrRemovedCard, ErrUnknownError}
GetUIDErrors     == {ErrOperationFailed}
DisconnectErrors == {ErrUnknownError}
UIDs             == 1..MaxUid

\* ------------------------------------------------------------- user data
\* UserData is an interface{}: the untyped nil, or a *card that is itself
\* nil (ptr = <<>>) or points to a card (ptr = <<c>>).
NilIface       == [type |-> "nil", ptr |-> <<>>]

\* CardIface with a nil *card stored as the untyped nil
CardIfaceUntypedNil(ptr) ==
  IF ptr = <<>> THEN NilIface ELSE [type |-> "*card", ptr |-> ptr]

\* the interface{} value made by assigning a *card to UserData
CardIface(ptr) == [type |-> "*card", ptr |-> ptr]

\* a value of any other dynamic type stored in the interface{}
OtherIface     == [type |-> "string", ptr |-> <<>>]

\* newCard(reader, sc): uid not read yet
newCard(reader) == [reader |-> reader, uid |-> 0]

VARIABLES
  ctxDone,        \* the cancellation token of ctx has been signaled
  rs,             \* read: the reader state table
  readPc,         \* read: position of the polling goroutine
  i,              \* read: index of the for loop over rs
  err,            \* read: the err variable
  werr,           \* waitForStatusChange: result of the last GetStatusChange
  c,              \* readCardData: the connected card (<<>> when none)
  ret,            \* readCardData: the pending return values behind the defer
  stateChan,      \* the buffer of the channel; each element is the copied
                  \* record (state) with its history (tag, connErr)
  chanClosed,     \* close(results) has run
  servePc,        \* Serve: position of the caller's goroutine
  v,              \* Serve: the *card given to h.ServeCard (<<>> outside the call)
  serveRet,       \* Serve: the returned error
  nWaits,         \* history: GetStatusChange calls answered so far
  ops,            \* history: middleware calls made for rs[i] in this iteration
  connErr,        \* history: result of the connect made for rs[i]
  discErr,        \* history: result of the disconnect made for rs[i]
  sessions,       \* history: card connections open
  pending,        \* history: cards read and not yet handled to completion
  lastRecv,       \* history: (wait, index) of the last record Serve received
  sctx,           \* the answers of the middleware to EstablishContext
  ctorPc,         \* EstablishContext: position of the call
  actx,           \* EstablishContext: the returned *Context (<<>> when nil)
  cerr            \* EstablishContext: the returned error

vars == <<ctxDone, rs, readPc, i, err, werr, c, ret, stateChan, chanClosed,
          servePc, v, serveRet, nWaits, ops, connErr, discErr, sessions,
          pending, lastRecv, sctx, ctorPc, actx, cerr>>

ctxVars   == <<sctx, ctorPc, actx, cerr>>
readVars  == <<rs, readPc, i, err, werr, c, ret>>
serveVars == <<servePc, v, serveRet>>
histRead  == <<nWaits, ops, connErr, discErr, sessions>>

Readers == 1..NumReaders

\* ------------------------------------------------------------ construction
\* []string values ListReaders can return
ReaderLists == UNION {[1..n -> Readers] : n \in 0..NumReaders}

\* The answers of the middleware during construction: the error of
\* scard.EstablishContext, the two results of IsValid, the two results of
\* ListReaders.
SctxAnswers ==
  [establishErr : {Nil, ErrInternalError},
   valid        : BOOLEAN,
   isValidErr   : {Nil, ErrInvalidHandle},
   readers      : ReaderLists,
   listErr      : {Nil, ErrUnknownError}]

\* the middleware with which the Context of the serving model was built
SctxServing ==
  [establishErr |-> Nil, valid |-> TRUE, isValidErr |-> Nil,
   readers |-> [k \in Readers |-> k], listErr |-> Nil]

\* newContext without the test of len(readers) == 0
newContextNoEmptyTest(s) ==
  IF s.isValidErr # Nil THEN [actx |-> <<>>, err |-> s.isValidErr]
  ELSE IF s.listErr # Nil THEN [actx |-> <<>>, err |-> s.listErr]
  ELSE [actx |-> <<[readers |-> s.readers]>>, err |-> Nil]

\* newContext(sctx, options...): the returned (*Context, error); the bool
\* result of IsValid is discarded; the options set only the share mode, the
\* protocol and the logging, which do not enter the reader list
newContext(s) ==
  IF s.isValidErr # Nil THEN [actx |-> <<>>, err |-> s.isValidErr]
  ELSE IF s.listErr # Nil THEN [actx |-> <<>>, err |-> s.listErr]
  ELSE IF Len(s.readers) = 0 THEN [actx |-> <<>>, err |-> ErrNoReadersAvailable]
  ELSE [actx |-> <<[readers |-> s.readers]>>, err |-> Nil]

\* ----------------------------------------------------------------- helpers
\* initializeReaderState
initializeReaderState ==
  [k \in Readers |-> [Reader |-> k, CurrentState |-> StateUnaware,
                      EventState |-> StateUnaware, UserData |-> NilIface]]

\* sf & scard.StatePresent != 0
HasPresent(sf) == StatePresent \in sf

\* a select that never finds ctx.Done() ready
CtxNeverDone == FALSE

\* case <-ctx.Done(): is ready
CtxDone == ctxDone

\* err == scard.ErrTimeout, compared after the error was wrapped
IsTimeoutByEquality(e) == e = ErrTimeout

\* errors.Is(err, scard.ErrTimeout) in waitForStatusChange
IsTimeout(e) == ErrorsIs(e, ErrTimeout)

\* IsAbsence without the ErrNoSmartcard case
IsAbsenceUnpoweredOnly(e) == ErrorsIs(e, ErrUnpoweredCard)

\* IsAbsence without the ErrUnpoweredCard case
IsAbsenceNoCardOnly(e) == ErrorsIs(e, ErrNoSmartcard)

\* the connect failures readCardData handles by returning (nil, nil)
IsAbsence(e) == ErrorsIs(e, ErrNoSmartcard) \/ ErrorsIs(e, ErrUnpoweredCard)

\* rs[i].EventState != rs[i].CurrentState
Changed(r) == r.EventState # r.CurrentState

\* NeedsCard, testing the flags of CurrentState
NeedsCardOnCurrent(r) == HasPresent(r.CurrentState)

\* the condition under which read calls readCardData for a changed record
NeedsCard(r) == HasPresent(r.EventState)

\* Dispatch whose type switch has no failing default case
DispatchDefaultSkip(r) ==
  IF HasPresent(r.EventState)
  THEN IF r.UserData.type = "*card"
       THEN IF r.UserData.ptr # <<>> THEN "ServeCard" ELSE "skip"
       ELSE "skip"
  ELSE "skip"

\* Dispatch, testing the flags of CurrentState where Serve tests EventState
DispatchOnCurrent(r) ==
  IF HasPresent(r.CurrentState)
  THEN IF r.UserData.type = "*card"
       THEN IF r.UserData.ptr # <<>> THEN "ServeCard" ELSE "skip"
       ELSE "unhandled"
  ELSE "skip"

\* Serve: what the body of the range loop does with a received record
Dispatch(r) ==
  IF HasPresent(r.EventState)
  THEN IF r.UserData.type = "*card"
       THEN IF r.UserData.ptr # <<>> THEN "ServeCard" ELSE "skip"
       ELSE "unhandled"
  ELSE "skip"

\* read: the for loop over rs, run from index k on table t up to the first
\* record it has to act on (NumReaders + 1 when it runs to its end)
NextChanged(t, k) ==
  IF \E j \in k..NumReaders : Changed(t[j])
  THEN CHOOSE j \in k..NumReaders :
         Changed(t[j]) /\ \A h \in k..(j - 1) : ~Changed(t[h])
  ELSE NumReaders + 1

\* read: where the for loop stands after that run: at the call of
\* readCardData, at the send, or back at the select of the outer loop
Scan(t, k) ==
  LET j == NextChanged(t, k)
  IN  IF j > NumReaders THEN [pc |-> "select", i |-> 0]
      ELSE [pc |-> IF NeedsCard(t[j]) THEN "connect" ELSE "send", i |-> j]

TagLess(a, b) == a[1] < b[1] \/ (a[1] = b[1] /\ a[2] < b[2])

\* -------------------------------------------------------------------- Init
Init ==
  /\ ctxDone = FALSE
  /\ rs = initializeReaderState
  /\ readPc = "idle"
  /\ i = 0
  /\ err = Nil
  /\ werr = Nil
  /\ c = <<>>
  /\ ret = [card |-> <<>>, err |-> Nil]
  /\ stateChan = <<>>
  /\ chanClosed = FALSE
  /\ servePc = "start"
  /\ v = <<>>
  /\ serveRet = Nil
  /\ nWaits = 0
  /\ ops = <<>>
  /\ connErr = Nil
  /\ discErr = Nil
  /\ sessions = 0
  /\ pending = <<>>
  /\ lastRecv = <<0, 0>>
  /\ sctx = SctxServing
  /\ ctorPc = "returned"
  /\ actx = newContext(SctxServing).actx
  /\ cerr = newContext(SctxServing).err

\* the state before a Context is constructed, for every answer of the middleware
CtxInit ==
  /\ sctx \in SctxAnswers
  /\ ctorPc = "start"
  /\ actx = <<>>
  /\ cerr = Nil
  /\ ctxDone = FALSE
  /\ rs = initializeReaderState
  /\ readPc = "idle"
  /\ i = 0
  /\ err = Nil
  /\ werr = Nil
  /\ c = <<>>
  /\ ret = [card |-> <<>>, err |-> Nil]
  /\ stateChan = <<>>
  /\ chanClosed = FALSE
  /\ servePc = "start"
  /\ v = <<>>
  /\ serveRet = Nil
  /\ nWaits = 0
  /\ ops = <<>>
  /\ connErr = Nil
  /\ discErr = Nil
  /\ sessions = 0
  /\ pending = <<>>
  /\ lastRecv = <<0, 0>>

progVars == <<ctxDone, readVars, stateChan, chanClosed, serveVars, histRead,
              pending, lastRecv>>

\* EstablishContext(options...): scardEstablishContext, then newContext
EstablishContext ==
  /\ ctorPc = "start"
  /\ ctorPc' = "returned"
  /\ IF sctx.establishErr # Nil
     THEN /\ actx' = <<>>
          /\ cerr' = sctx.establishErr
     ELSE /\ actx' = newContext(sctx).actx
          /\ cerr' = newContext(sctx).err
  /\ UNCHANGED <<sctx, progVars>>

\* actx.SetReaders(r)
SetReaders ==
  /\ ctorPc = "returned"
  /\ actx # <<>>
  /\ \E r \in ReaderLists : actx' = <<[actx[1] EXCEPT !.readers = r]>>
  /\ UNCHANGED <<sctx, ctorPc, cerr, progVars>>

\* ------------------------------------------------------------ cancellation
\* the owner of ctx cancels it
Cancel ==
  /\ ~ctxDone
  /\ ctxDone' = TRUE
  /\ UNCHANGED <<readVars, stateChan, chanClosed, serveVars, histRead,
                 pending, lastRecv>>
  /\ UNCHANGED ctxVars

\* ------------------------------------------------------ the polling engine
\* read returns: the deferred close(results) runs, and the locals rs and i
\* of read go out of scope (kept at their initial values from then on)
ReadReturn(e) ==
  /\ err' = e
  /\ chanClosed' = TRUE
  /\ readPc' = "done"
  /\ rs' = initializeReaderState
  /\ i' = 0

\* read: select { case <-ctx.Done(): return; default: }
ReadSelect ==
  /\ readPc = "select"
  /\ IF CtxDone
     THEN ReadReturn(err)
     ELSE /\ readPc' = "call"
          /\ UNCHANGED <<err, chanClosed, rs, i>>
  /\ UNCHANGED <<ctxDone, werr, c, ret, stateChan, serveVars, histRead,
                 pending, lastRecv>>
  /\ UNCHANGED ctxVars

\* waitForStatusChange: actx.context.GetStatusChange(rs, interruptDuration) returns
GetStatusChange ==
  /\ readPc = "call"
  /\ nWaits < MaxWaits \/ ctxDone
  /\ nWaits' = IF nWaits < MaxWaits THEN nWaits + 1 ELSE nWaits
  /\ \/ \E ev \in [Readers -> StateFlags] :
          /\ rs' = [k \in Readers |-> [rs[k] EXCEPT !.EventState = ev[k]]]
          /\ werr' = Nil
     \/ \E e \in WaitErrors :
          /\ werr' = e
          /\ rs' = rs
  /\ readPc' = "waitsel"
  /\ UNCHANGED <<ctxDone, i, err, c, ret, stateChan, chanClosed, serveVars,
                 ops, connErr, discErr, sessions, pending, lastRecv>>
  /\ UNCHANGED ctxVars

\* WaitSelect without the select on ctx.Done() after the call
WaitSelectNoCtx ==
  /\ readPc = "waitsel"
  /\ IF werr = Nil
     THEN /\ err' = Nil
          /\ readPc' = Scan(rs, 1).pc
          /\ i' = Scan(rs, 1).i
          /\ UNCHANGED <<chanClosed, rs>>
     ELSE IF IsTimeout(wrapError("error waiting for status change", werr))
     THEN /\ readPc' = "call"
          /\ UNCHANGED <<err, chanClosed, rs, i>>
     ELSE ReadReturn(wrapError("error waiting for status change", werr))
  /\ UNCHANGED <<ctxDone, werr, c, ret, stateChan, serveVars, histRead,
                 pending, lastRecv>>
  /\ UNCHANGED ctxVars

\* waitForStatusChange after the call, read's test of its result, and the
\* for loop up to the first changed record
WaitSelect ==
  /\ readPc = "waitsel"
  /\ IF CtxDone
     THEN ReadReturn(ErrShutdown)
     ELSE IF werr = Nil
     THEN /\ err' = Nil
          /\ readPc' = Scan(rs, 1).pc
          /\ i' = Scan(rs, 1).i
          /\ UNCHANGED <<chanClosed, rs>>
     ELSE IF IsTimeout(wrapError("error waiting for status change", werr))
     THEN /\ readPc' = "call"
          /\ UNCHANGED <<err, chanClosed, rs, i>>
     ELSE ReadReturn(wrapError("error waiting for status change", werr))
  /\ UNCHANGED <<ctxDone, werr, c, ret, stateChan, serveVars, histRead,
                 pending, lastRecv>>
  /\ UNCHANGED ctxVars

\* readCardData step 1: actx.connect(state.Reader) and the handling of its error
Connect ==
  /\ readPc = "connect"
  /\ ops' = Append(ops, "connect")
  /\ \/ /\ c' = <<newCard(rs[i].Reader)>>
        /\ connErr' = Nil
        /\ sessions' = sessions + 1
        /\ readPc' = "getUID"
        /\ UNCHANGED <<rs, err, chanClosed, i>>
     \/ \E e \in ConnectErrors :
          /\ connErr' = e
          /\ c' = <<>>
          /\ sessions' = sessions
          /\ IF IsAbsence(wrapError("readCardData connect error", e))
             THEN /\ rs' = [rs EXCEPT ![i].UserData = CardIface(<<>>)]
                  /\ err' = Nil
                  /\ readPc' = "send"
                  /\ UNCHANGED <<chanClosed, i>>
             ELSE ReadReturn(wrapError("readCardData connect error", e))
  /\ UNCHANGED <<ctxDone, werr, ret, stateChan, serveVars, nWaits, discErr,
                 pending, lastRecv>>
  /\ UNCHANGED ctxVars

\* GetUID with readCardData returning the card without a deferred disconnect
GetUIDNoDisconnect ==
  /\ readPc = "getUID"
  /\ ops' = Append(ops, "getUID")
  /\ \/ \E u \in UIDs :
          /\ c' = <<[c[1] EXCEPT !.uid = u]>>
          /\ ret' = ret
          /\ pending' = Append(pending, [card |-> c'[1], tag |-> <<nWaits, i>>])
          /\ rs' = [rs EXCEPT ![i].UserData = CardIface(c')]
          /\ readPc' = "send"
          /\ UNCHANGED <<i, err, chanClosed>>
     \/ \E e \in GetUIDErrors :
          /\ c' = c
          /\ ret' = [card |-> <<>>, err |-> e]
          /\ pending' = pending
          /\ readPc' = "disconnect"
          /\ UNCHANGED <<rs, i, err, chanClosed>>
  /\ UNCHANGED <<ctxDone, werr, stateChan, serveVars, nWaits, connErr,
                 discErr, sessions, lastRecv>>
  /\ UNCHANGED ctxVars

\* GetUID with the disconnect deferred only after a successful getUID
GetUIDNoDefer ==
  /\ readPc = "getUID"
  /\ ops' = Append(ops, "getUID")
  /\ \/ \E u \in UIDs :
          /\ c' = <<[c[1] EXCEPT !.uid = u]>>
          /\ ret' = [card |-> c', err |-> Nil]
          /\ pending' = Append(pending, [card |-> c'[1], tag |-> <<nWaits, i>>])
          /\ readPc' = "disconnect"
          /\ UNCHANGED <<rs, i, err, chanClosed>>
     \/ \E e \in GetUIDErrors :
          /\ c' = c
          /\ ret' = ret
          /\ pending' = pending
          /\ ReadReturn(e)
  /\ UNCHANGED <<ctxDone, werr, stateChan, serveVars, nWaits, connErr,
                 discErr, sessions, lastRecv>>
  /\ UNCHANGED ctxVars

\* readCardData step 2: c.uid, err = c.getUID()
GetUID ==
  /\ readPc = "getUID"
  /\ ops' = Append(ops, "getUID")
  /\ \/ \E u \in UIDs :
          /\ c' = <<[c[1] EXCEPT !.uid = u]>>
          /\ ret' = [card |-> c', err |-> Nil]
          /\ pending' = Append(pending, [card |-> c'[1], tag |-> <<nWaits, i>>])
     \/ \E e \in GetUIDErrors :
          /\ c' = c
          /\ ret' = [card |-> <<>>, err |-> e]
          /\ pending' = pending
  /\ readPc' = "disconnect"
  /\ UNCHANGED <<ctxDone, rs, i, err, werr, stateChan, chanClosed, serveVars,
                 nWaits, connErr, discErr, sessions, lastRecv>>
  /\ UNCHANGED ctxVars

\* Disconnect with read not testing the error readCardData returns
DisconnectSwallowErr ==
  /\ readPc = "disconnect"
  /\ ops' = Append(ops, "disconnect")
  /\ \E e \in {Nil} \cup DisconnectErrors : discErr' = e
  /\ sessions' = sessions - 1
  /\ c' = <<>>
  /\ ret' = [card |-> <<>>, err |-> Nil]
  /\ rs' = [rs EXCEPT ![i].UserData = CardIface(ret.card)]
  /\ err' = ret.err
  /\ readPc' = "send"
  /\ UNCHANGED <<chanClosed, i>>
  /\ UNCHANGED <<ctxDone, werr, stateChan, serveVars, nWaits, connErr,
                 pending, lastRecv>>
  /\ UNCHANGED ctxVars

\* Disconnect with the error of actx.disconnect returned by readCardData
DisconnectErrFatal ==
  /\ readPc = "disconnect"
  /\ ops' = Append(ops, "disconnect")
  /\ sessions' = sessions - 1
  /\ c' = <<>>
  /\ ret' = [card |-> <<>>, err |-> Nil]
  /\ \E e \in {Nil} \cup DisconnectErrors :
       /\ discErr' = e
       /\ IF ret.err # Nil
          THEN ReadReturn(ret.err)
          ELSE IF e # Nil
          THEN ReadReturn(e)
          ELSE /\ rs' = [rs EXCEPT ![i].UserData = CardIface(ret.card)]
               /\ err' = Nil
               /\ readPc' = "send"
               /\ UNCHANGED <<chanClosed, i>>
  /\ UNCHANGED <<ctxDone, werr, stateChan, serveVars, nWaits, connErr,
                 pending, lastRecv>>
  /\ UNCHANGED ctxVars

\* readCardData step 3 (deferred): actx.disconnect(c), whose error is only
\* logged, then the return to read
Disconnect ==
  /\ readPc = "disconnect"
  /\ ops' = Append(ops, "disconnect")
  /\ \E e \in {Nil} \cup DisconnectErrors : discErr' = e
  /\ sessions' = sessions - 1
  /\ c' = <<>>
  /\ ret' = [card |-> <<>>, err |-> Nil]
  /\ IF ret.err # Nil
     THEN ReadReturn(ret.err)
     ELSE /\ rs' = [rs EXCEPT ![i].UserData = CardIface(ret.card)]
          /\ err' = Nil
          /\ readPc' = "send"
          /\ UNCHANGED <<chanClosed, i>>
  /\ UNCHANGED <<ctxDone, werr, stateChan, serveVars, nWaits, connErr,
                 pending, lastRecv>>
  /\ UNCHANGED ctxVars

\* Send with rs[i].CurrentState = rs[i].EventState made before the send
SendUpdateFirst ==
  /\ readPc = "send"
  /\ Len(stateChan) < ChanCap
  /\ stateChan' = Append(stateChan,
                         [state |-> [rs[i] EXCEPT !.CurrentState = rs[i].EventState],
                          tag |-> <<nWaits, i>>, connErr |-> connErr])
  /\ rs' = [rs EXCEPT ![i].CurrentState = rs[i].EventState,
                      ![i].UserData = NilIface]
  /\ readPc' = Scan(rs', i + 1).pc
  /\ i' = Scan(rs', i + 1).i
  /\ ops' = <<>>
  /\ connErr' = Nil
  /\ discErr' = Nil
  /\ UNCHANGED <<ctxDone, err, werr, c, ret, chanClosed, serveVars, nWaits,
                 sessions, pending, lastRecv>>
  /\ UNCHANGED ctxVars

\* Send without rs[i].UserData = nil
SendKeepUserData ==
  /\ readPc = "send"
  /\ Len(stateChan) < ChanCap
  /\ stateChan' = Append(stateChan, [state |-> rs[i], tag |-> <<nWaits, i>>,
                                     connErr |-> connErr])
  /\ rs' = [rs EXCEPT ![i].CurrentState = rs[i].EventState]
  /\ readPc' = Scan(rs', i + 1).pc
  /\ i' = Scan(rs', i + 1).i
  /\ ops' = <<>>
  /\ connErr' = Nil
  /\ discErr' = Nil
  /\ UNCHANGED <<ctxDone, err, werr, c, ret, chanClosed, serveVars, nWaits,
                 sessions, pending, lastRecv>>
  /\ UNCHANGED ctxVars

\* read: results <- rs[i]; rs[i].CurrentState = rs[i].EventState;
\* rs[i].UserData = nil; then the for loop runs on to the next changed record
Send ==
  /\ readPc = "send"
  /\ Len(stateChan) < ChanCap
  /\ stateChan' = Append(stateChan, [state |-> rs[i], tag |-> <<nWaits, i>>,
                                     connErr |-> connErr])
  /\ rs' = [rs EXCEPT ![i].CurrentState = rs[i].EventState,
                      ![i].UserData = NilIface]
  /\ readPc' = Scan(rs', i + 1).pc
  /\ i' = Scan(rs', i + 1).i
  /\ ops' = <<>>
  /\ connErr' = Nil
  /\ discErr' = Nil
  /\ UNCHANGED <<ctxDone, err, werr, c, ret, chanClosed, serveVars, nWaits,
                 sessions, pending, lastRecv>>
  /\ UNCHANGED ctxVars

\* -------------------------------------------------------- the dispatch loop
\* Serve: stateChan := make(...); go actx.read(ctx, stateChan)
ServeStart ==
  /\ servePc = "start"
  /\ servePc' = "range"
  /\ readPc' = "select"
  /\ UNCHANGED <<ctxDone, rs, i, err, werr, c, ret, stateChan, chanClosed,
                 v, serveRet, histRead, pending, lastRecv>>
  /\ UNCHANGED ctxVars

\* Receive with the Handler started as a goroutine: the loop goes on
\* receiving while a Handler call is running
ReceiveAsync ==
  /\ servePc \in {"range", "handler"}
  /\ Len(stateChan) > 0
  /\ stateChan' = Tail(stateChan)
  /\ LET r == Head(stateChan).state
         d == Dispatch(r)
     IN  /\ servePc' = CASE d = "ServeCard" -> "handler"
                         [] d = "skip"      -> servePc
                         [] OTHER           -> "returned"
         /\ serveRet' = IF d = "unhandled" THEN ErrUnhandledCardData ELSE serveRet
         /\ v' = IF d = "ServeCard" THEN r.UserData.ptr ELSE v
         /\ lastRecv' = Head(stateChan).tag
  /\ UNCHANGED <<ctxDone, readVars, chanClosed, histRead, pending>>
  /\ UNCHANGED ctxVars

\* Serve: one iteration of for stateReceived := range stateChan, up to the
\* call of the Handler
Receive ==
  /\ servePc = "range"
  /\ Len(stateChan) > 0
  /\ stateChan' = Tail(stateChan)
  /\ LET r == Head(stateChan).state
         d == Dispatch(r)
     IN  /\ servePc' = CASE d = "ServeCard" -> "handler"
                         [] d = "skip"      -> "range"
                         [] OTHER           -> "returned"
         /\ serveRet' = IF d = "unhandled" THEN ErrUnhandledCardData ELSE serveRet
         /\ v' = IF d = "ServeCard" THEN r.UserData.ptr ELSE <<>>
         /\ lastRecv' = Head(stateChan).tag
  /\ UNCHANGED <<ctxDone, readVars, chanClosed, histRead, pending>>
  /\ UNCHANGED ctxVars

\* h.ServeCard(v) returns
HandlerReturn ==
  /\ servePc = "handler"
  /\ servePc' = "range"
  /\ v' = <<>>
  /\ pending' = IF pending # <<>> THEN Tail(pending) ELSE pending
  /\ UNCHANGED <<ctxDone, readVars, stateChan, chanClosed, serveRet, histRead,
                 lastRecv>>
  /\ UNCHANGED ctxVars

\* ServeReturn with the loop ending as soon as the channel is empty
ServeReturnOnEmpty ==
  /\ servePc = "range"
  /\ Len(stateChan) = 0
  /\ servePc' = "returned"
  /\ serveRet' = Nil
  /\ UNCHANGED <<ctxDone, readVars, stateChan, chanClosed, v, histRead,
                 pending, lastRecv>>
  /\ UNCHANGED ctxVars

\* Serve: the range loop ends on the closed, drained channel; return nil
ServeReturn ==
  /\ servePc = "range"
  /\ Len(stateChan) = 0
  /\ chanClosed
  /\ servePc' = "returned"
  /\ serveRet' = Nil
  /\ UNCHANGED <<ctxDone, readVars, stateChan, chanClosed, v, histRead,
                 pending, lastRecv>>
  /\ UNCHANGED ctxVars

\* ------------------------------------------------- Serve called once more
\* The caller, back from Serve, calls Serve again on the same Context, with
\* the same or another ctx: a new channel is made and a new goroutine runs
\* read with its own rs, i and err.
ServeAgain ==
  /\ servePc = "returned"
  /\ servePc' = "range"
  /\ serveRet' = Nil
  /\ v' = <<>>
  /\ stateChan' = <<>>
  /\ chanClosed' = FALSE
  /\ readPc' = "select"
  /\ rs' = initializeReaderState
  /\ i' = 0
  /\ err' = Nil
  /\ werr' = Nil
  /\ ctxDone' \in BOOLEAN
  /\ ops' = <<>>
  /\ connErr' = Nil
  /\ discErr' = Nil
  /\ lastRecv' = <<nWaits, NumReaders>>
  /\ UNCHANGED <<c, ret, nWaits, sessions, pending>>
  /\ UNCHANGED ctxVars

\* ------------------------------------------- the dispatch loop on its own
\* The values a scard.ReaderState received from the channel can hold: the
\* UserData field is an interface{} and admits every dynamic type.
Payloads(k) ==
  {NilIface, OtherIface, CardIface(<<>>)}
    \cup {CardIface(<<[reader |-> k, uid |-> u]>>) : u \in UIDs}

ReaderStates ==
  UNION {[Reader : {k}, CurrentState : StateFlags, EventState : StateFlags,
          UserData : Payloads(k)] : k \in Readers}

\* a sender puts a scard.ReaderState on the channel Serve ranges over
Feed ==
  /\ servePc # "start"
  /\ ~chanClosed
  /\ Len(stateChan) < ChanCap
  /\ \E r \in ReaderStates :
       stateChan' = Append(stateChan, [state |-> r, tag |-> <<0, r.Reader>>,
                                       connErr |-> Nil])
  /\ UNCHANGED <<ctxDone, readVars, chanClosed, serveVars, histRead,
                 pending, lastRecv>>
  /\ UNCHANGED ctxVars

\* the sender closes the channel
FeedClose ==
  /\ servePc # "start"
  /\ ~chanClosed
  /\ chanClosed' = TRUE
  /\ UNCHANGED <<ctxDone, readVars, stateChan, serveVars, histRead,
                 pending, lastRecv>>
  /\ UNCHANGED ctxVars

\* ----------------------------------------------------------- specification
Next ==
  \/ Cancel
  \/ ServeStart
  \/ ReadSelect
  \/ GetStatusChange
  \/ WaitSelect
  \/ Connect
  \/ GetUID
  \/ Disconnect
  \/ Send
  \/ Receive
  \/ HandlerReturn
  \/ ServeReturn

Spec == Init /\ [][Next]_vars

\* the steps of the goroutine running read
readStep ==
  \/ ReadSelect
  \/ GetStatusChange
  \/ WaitSelect
  \/ Connect
  \/ GetUID
  \/ Disconnect
  \/ Send

\* the steps of the goroutine running Serve
serveStep ==
  \/ ServeStart
  \/ Receive
  \/ HandlerReturn
  \/ ServeReturn

\* Both goroutines are scheduled: every call into the middleware returns and
\* every Handler call returns.  The token is never required to be signaled.
Fairness ==
  /\ WF_vars(readStep)
  /\ WF_vars(serveStep)

LiveSpec == Spec /\ Fairness

\* Serve's range loop with the channel filled by an arbitrary sender
ServeNext ==
  \/ ServeStart
  \/ Feed
  \/ FeedClose
  \/ Receive
  \/ HandlerReturn
  \/ ServeReturn

ServeSpec == Init /\ [][ServeNext]_vars

\* Serve calls made one after the other on one Context
SeqNext ==
  \/ Next
  \/ ServeAgain

SeqSpec == Init /\ [][SeqNext]_vars

\* the construction of a Context
CtxNext ==
  \/ EstablishContext
  \/ SetReaders

CtxSpec == CtxInit /\ [][CtxNext]_vars

TypeOK ==
  /\ ctxDone \in BOOLEAN
  /\ readPc \in {"idle", "select", "call", "waitsel", "connect",
                 "getUID", "disconnect", "send", "done"}
  /\ servePc \in {"start", "range", "handler", "returned"}
  /\ Len(stateChan) <= ChanCap
  /\ sessions \in 0..1
\* ------------------------------------------------------------- properties
PresenceTransition(r) == ~HasPresent(r.CurrentState) /\ HasPresent(r.EventState)

\* read ended on a fatal condition (not on cancellation)
EngineFatal == readPc = "done" /\ err # Nil /\ err # ErrShutdown

\* C1: when the polling engine ends on a fatal condition Serve returns that
\* same error, and Serve returns nil only on clean shutdown.
C1_ServeReturnsEngineError ==
  servePc = "returned" => serveRet = (IF EngineFatal THEN err ELSE Nil)

\* C2: a connect/read sequence and a Handler invocation happen for a reader
\* only when its newly-observed flags gain "present" relative to its current
\* flags; a change of other flags while present stays set causes neither.
C2_OnlyOnGainedPresent ==
  /\ readPc \in {"connect", "getUID", "disconnect"} => PresenceTransition(rs[i])
  /\ \A k \in 1..Len(stateChan) :
       Dispatch(stateChan[k].state) = "ServeCard" =>
          PresenceTransition(stateChan[k].state)

\* C3: every identity read that succeeds leads to exactly one Handler
\* invocation, carrying the card with the identifier and reader of that read,
\* in the order of the reads; the Handler gets no other card, and when Serve
\* returns no read is left without its invocation.
C3_HandlerPerRead ==
  /\ servePc = "handler" =>
       /\ pending # <<>>
       /\ v # <<>>
       /\ Head(pending) = [card |-> v[1], tag |-> lastRecv]
  /\ servePc = "returned" => pending = <<>>

C3_Witness ==
  /\ servePc = "handler"
  /\ v[1].uid = 2
  /\ lastRecv[1] = 2

\* C4 (as claimed): every presence transition that is emitted had exactly one
\* connect, one identity read and one disconnect run for its reader first.
C4_FullSequenceBeforeEmit ==
  (readPc = "send" /\ PresenceTransition(rs[i])) =>
     ops = <<"connect", "getUID", "disconnect">>

\* C4 (amended): every presence transition that is emitted had exactly one
\* connect attempted for its reader first; when that connect succeeded,
\* exactly one identity read and one disconnect followed it and the session
\* is closed before the record is put on the queue; when it failed with an
\* absence condition nothing else was run.
C4_OneSequenceBeforeEmit ==
  (readPc = "send" /\ PresenceTransition(rs[i])) =>
     /\ sessions = 0
     /\ c = <<>>
     /\ IF connErr = Nil
        THEN ops = <<"connect", "getUID", "disconnect">>
        ELSE ops = <<"connect">>

C4_Witness ==
  /\ readPc = "send"
  /\ PresenceTransition(rs[i])
  /\ ops = <<"connect", "getUID", "disconnect">>
  /\ rs[i].UserData.ptr # <<>>
  /\ i = 2

\* C5: a connect that fails with "no card" ends neither the engine nor Serve:
\* the record goes on to be emitted with an empty payload, which the dispatch
\* loop skips without a Handler invocation, and Serve returns no error.
C5_NoCardIsAbsence ==
  /\ [](servePc = "returned" => serveRet = Nil)
  /\ [][(readPc = "connect" /\ readPc' # "connect"
           /\ connErr' = ErrNoSmartcard) =>
          /\ readPc' = "send"
          /\ err' = Nil
          /\ ~chanClosed'
          /\ rs'[i].UserData.ptr = <<>>
          /\ Dispatch(rs'[i]) = "skip"]_vars
  /\ [](\A k \in 1..Len(stateChan) :
          stateChan[k].connErr = ErrNoSmartcard =>
             /\ stateChan[k].state.UserData.ptr = <<>>
             /\ Dispatch(stateChan[k].state) = "skip")

\* the record of the failed connect is on the queue, unhandled, and the
\* engine is in its next wait call
C5_Witness ==
  /\ readPc = "call"
  /\ ~ctxDone
  /\ stateChan # <<>>
  /\ Head(stateChan).connErr = ErrNoSmartcard
  /\ PresenceTransition(Head(stateChan).state)
  /\ Head(stateChan).tag[1] = nWaits

AbsenceOutcome ==
  /\ readPc = "send"
  /\ err = Nil
  /\ rs[i].UserData.ptr = <<>>
  /\ ~chanClosed

FatalOutcome ==
  /\ readPc = "done"
  /\ err = wrapError("readCardData connect error", connErr)
  /\ chanClosed

\* C6 (as claimed): a connect failure is treated as absence for "no card",
\* "card removed" and "unpowered"; every other one ends the polling cycle.
C6_ThreeAbsenceConditions ==
  connErr # Nil =>
     IF connErr \in {ErrNoSmartcard, ErrRemovedCard, ErrUnpoweredCard}
     THEN AbsenceOutcome ELSE FatalOutcome

\* C6 (amended): a connect failure is treated as absence for "no card" and
\* "unpowered"; every other one, "card removed" included, ends the polling
\* cycle with the wrapped connect error.
C6_TwoAbsenceConditions ==
  connErr # Nil =>
     IF connErr \in {ErrNoSmartcard, ErrUnpoweredCard}
     THEN AbsenceOutcome ELSE FatalOutcome

C6_Witness ==
  /\ connErr = ErrUnpoweredCard
  /\ readPc = "send"
  /\ nWaits = 2

\* C7: a timeout of the wait call never ends the polling cycle: the engine's
\* next step after a timeout that is not overtaken by cancellation is another
\* wait call, with nothing emitted, no Handler invoked and the queue left
\* open; the cycle ends only through cancellation or a non-timeout failure.
C7_TimeoutRetried ==
  /\ [](readPc = "done" =>
          ctxDone \/ (err # Nil /\ ~ErrorsIs(err, ErrTimeout)))
  /\ [][(readPc = "waitsel" /\ werr = ErrTimeout /\ ~ctxDone
           /\ readPc' # readPc) =>
          /\ readPc' = "call"
          /\ ~chanClosed'
          /\ UNCHANGED <<rs, err, stateChan, serveVars, pending, lastRecv,
                         ops, sessions>>]_vars

\* after a timeout the engine is in a further wait call
C7_Witness ==
  /\ readPc = "call"
  /\ werr = ErrTimeout
  /\ nWaits = 2
  /\ ~ctxDone
  /\ ~chanClosed

\* C8: once the token is signaled, a Serve call that has started eventually
\* returns, and it returns no error.
C8_CancelEndsServe ==
  (ctxDone /\ servePc # "start") ~> (servePc = "returned" /\ serveRet = Nil)

\* cancellation finds the engine blocked on the full queue and the dispatch
\* loop inside a Handler call
C8_Witness ==
  /\ ctxDone
  /\ readPc = "send"
  /\ Len(stateChan) = ChanCap
  /\ servePc = "handler"

\* C9: the token is tested before every wait call and right after every wait
\* call returns: the result of a wait call that returned after the token was
\* signaled is dropped (the engine's next step is its end, with no connect
\* and nothing emitted), and a Serve call started with the token already
\* signaled ends without a wait call, a Handler invocation or an error.
C9_CancelChecked ==
  /\ [][(readPc' = "call" /\ readPc # "call") => ~ctxDone]_vars
  /\ [][(readPc \in {"select", "waitsel"} /\ ctxDone /\ readPc' # readPc) =>
          /\ readPc' = "done"
          /\ chanClosed'
          /\ UNCHANGED <<stateChan, serveVars, pending, lastRecv, ops,
                         sessions, nWaits>>]_vars
  /\ []((readPc = "done" /\ nWaits = 0) =>
          /\ lastRecv = <<0, 0>>
          /\ stateChan = <<>>
          /\ pending = <<>>
          /\ servePc = "returned" => serveRet = Nil)

\* a wait call has reported a card with the token signaled
C9_Witness ==
  /\ readPc = "waitsel"
  /\ ctxDone
  /\ werr = Nil
  /\ \E k \in Readers : PresenceTransition(rs[k])

\* the (wait, index) of the record emitted last: every emitted record is in
\* the channel or was received
LastEmitted ==
  IF stateChan # <<>> THEN stateChan[Len(stateChan)].tag ELSE lastRecv

\* C10: records are emitted in reader-table order within a wait return and in
\* the order of the wait returns across them; they are queued and given to
\* the Handler in that same order; a Handler invocation starts only when no
\* other one is running.
C10_Ordered ==
  /\ [][Len(stateChan') > Len(stateChan) =>
          TagLess(LastEmitted, stateChan'[Len(stateChan')].tag)]_vars
  /\ [][Len(stateChan') < Len(stateChan) =>
          /\ servePc = "range"
          /\ lastRecv' = Head(stateChan).tag
          /\ TagLess(lastRecv, lastRecv')]_vars
  /\ [](\A k \in 1..Len(stateChan) :
          /\ TagLess(lastRecv, stateChan[k].tag)
          /\ k > 1 => TagLess(stateChan[k-1].tag, stateChan[k].tag))
  /\ [](servePc = "handler" => v # <<>> /\ v[1].reader = lastRecv[2])

\* the Handler runs on the record of reader 1 while the record of reader 2
\* from the same wait return is queued behind it
C10_Witness ==
  /\ servePc = "handler"
  /\ lastRecv = <<1, 1>>
  /\ stateChan # <<>>
  /\ Head(stateChan).tag = <<1, 2>>
  /\ Dispatch(Head(stateChan).state) = "ServeCard"

\* a received record reports "present" with a payload that is not of the
\* card type
ForeignPayload(r) == HasPresent(r.EventState) /\ r.UserData.type # "*card"

\* C11: when the dispatch loop receives a record whose newly-observed flags
\* include "present" and whose payload is not of the card type (neither a
\* card session nor the empty card), Serve returns ErrUnhandledCardData
\* without invoking the Handler for it, and nothing is received or handled
\* afterwards in that Serve call.
C11_UnhandledPayload ==
  /\ [][(Len(stateChan') < Len(stateChan)
           /\ ForeignPayload(Head(stateChan).state)) =>
          /\ servePc' = "returned"
          /\ serveRet' = ErrUnhandledCardData
          /\ v' = <<>>]_vars
  /\ [][servePc = "returned" =>
          /\ UNCHANGED <<servePc, serveRet, v, lastRecv>>
          /\ Len(stateChan') >= Len(stateChan)]_vars
  /\ [](serveRet = ErrUnhandledCardData => servePc = "returned" /\ v = <<>>)

\* Serve has returned the error and a record holding a card stays queued
C11_Witness ==
  /\ servePc = "returned"
  /\ serveRet = ErrUnhandledCardData
  /\ stateChan # <<>>
  /\ Dispatch(Head(stateChan).state) = "ServeCard"

C13_PayloadWindow ==
  /\ readPc \in {"select", "call", "waitsel"} =>
       \A k \in Readers : rs[k].UserData = NilIface
  /\ \A k \in Readers :
       rs[k].UserData # NilIface => (readPc = "send" /\ k = i)

\* the engine is in a wait call after it emitted a record holding a card
C13_Witness ==
  /\ readPc = "call"
  /\ ~ctxDone
  /\ stateChan # <<>>
  /\ Head(stateChan).state.UserData.ptr # <<>>
  /\ Head(stateChan).tag = <<1, 2>>

FullSequence == <<"connect", "getUID", "disconnect">>

\* C14: at most one card connection is open at any time; one is open only
\* between a successful connect and the disconnect of the same readCardData
\* call, so none is open at the cancellation test, during a wait call, or
\* once read has returned, whatever made it return.
C14_SessionScoped ==
  /\ sessions \in {0, 1}
  /\ sessions = 1 <=> readPc \in {"getUID", "disconnect"}
  /\ sessions = 1 <=> c # <<>>
  /\ readPc \in {"idle", "select", "call", "waitsel", "send", "done"} =>
       sessions = 0

\* read has returned on a failed identity read and the connection is closed
C14_Witness ==
  /\ readPc = "done"
  /\ ~ctxDone
  /\ err = ErrOperationFailed
  /\ ops = FullSequence
  /\ sessions = 0

\* C15: after a successful connect the identity read is followed by exactly
\* one disconnect, also when the read fails; a failed read ends read with the
\* error of getUID: the queue is closed with nothing put on it for the
\* failing record, and nothing is put on it afterwards.
C15_ReadFailureIsFatal ==
  /\ [](ops \in {<<>>, <<"connect">>, <<"connect", "getUID">>, FullSequence})
  /\ []((ops = <<"connect">> /\ connErr = Nil) => readPc = "getUID")
  /\ [](ops = <<"connect", "getUID">> => readPc = "disconnect")
  /\ [][(readPc = "disconnect" /\ ret.err # Nil /\ readPc' # readPc) =>
          /\ readPc' = "done"
          /\ err' = ret.err
          /\ ret.err \in GetUIDErrors
          /\ ops' = FullSequence
          /\ sessions' = 0
          /\ chanClosed'
          /\ stateChan' = stateChan]_vars
  /\ [][readPc = "done" =>
          /\ readPc' = "done"
          /\ Len(stateChan') <= Len(stateChan)]_vars

\* the records of the first wait return were handled, the identity read
\* failed in the second, and Serve has returned
C15_Witness ==
  /\ readPc = "done"
  /\ err = ErrOperationFailed
  /\ ops = FullSequence
  /\ nWaits = 2
  /\ lastRecv = <<1, 2>>
  /\ servePc = "returned"

Tags == (1..MaxWaits) \X Readers

\* C16: when the identity read succeeded and the disconnect fails, read goes
\* on as after a successful disconnect: the record is sent with the card
\* holding the identifier read, the for loop goes on to the next record or
\* to the next wait call with the queue open, and the Handler is invoked
\* with that card.
C16_DisconnectFailureIgnored ==
  /\ [][(readPc = "disconnect" /\ ret.err = Nil /\ readPc' # readPc
           /\ discErr' # Nil) =>
          /\ readPc' = "send"
          /\ err' = Nil
          /\ ~chanClosed'
          /\ ret.card # <<>>
          /\ ret.card[1].uid \in UIDs
          /\ rs'[i].UserData = CardIface(ret.card)
          /\ pending' = pending
          /\ pending[Len(pending)] = [card |-> ret.card[1], tag |-> <<nWaits, i>>]]_vars
  /\ [][(readPc = "send" /\ discErr # Nil /\ readPc' # readPc) =>
          /\ stateChan'[Len(stateChan')].state.UserData = rs[i].UserData
          /\ stateChan'[Len(stateChan')].tag = <<nWaits, i>>
          /\ readPc' \in {"select", "connect", "send"}
          /\ ~chanClosed'
          /\ err' = Nil]_vars
  /\ \A t \in Tags :
       (readPc = "send" /\ discErr # Nil /\ <<nWaits, i>> = t) ~>
          (servePc = "handler" /\ lastRecv = t
             /\ Head(pending).tag = t /\ v = <<Head(pending).card>>)

\* the disconnect failed after a successful identity read, and the engine
\* has the record of reader 2 ready to send
C16_Witness ==
  /\ readPc = "send"
  /\ discErr = ErrUnknownError
  /\ i = 2
  /\ rs[i].UserData.ptr # <<>>
  /\ rs[i].UserData.ptr[1].uid = 2

\* C17: when read is back at the cancellation test or in a wait call, every
\* record has CurrentState = EventState.  While a wait return is processed
\* the records are taken in table order: the record at i differs, the ones
\* before it no longer do.  A record is put on the queue only as a copy of a
\* record that differs, holding the CurrentState from before the update, and
\* that step sets the record's CurrentState to its EventState; no other step
\* of a running read changes the CurrentState of a record, and the records
\* other than the one sent are left as they are.
C17_ProcessedWaitReturn ==
  /\ [](readPc \in {"select", "call"} => \A k \in Readers : ~Changed(rs[k]))
  /\ [](readPc \in {"connect", "getUID", "disconnect", "send"} =>
          /\ i \in Readers
          /\ Changed(rs[i])
          /\ \A k \in 1..(i - 1) : ~Changed(rs[k]))
  /\ [][Len(stateChan') > Len(stateChan) =>
          /\ stateChan'[Len(stateChan')].state = rs[i]
          /\ stateChan'[Len(stateChan')].tag = <<nWaits, i>>
          /\ Changed(rs[i])
          /\ rs'[i].CurrentState = rs[i].EventState
          /\ rs'[i].EventState = rs[i].EventState
          /\ \A k \in Readers \ {i} : rs'[k] = rs[k]
          /\ \A k \in (i + 1)..(i' - 1) : ~Changed(rs[k])
          /\ (readPc' = "select") => \A k \in (i + 1)..NumReaders : ~Changed(rs[k])]_vars
  /\ [][readPc' # "done" =>
          \A k \in Readers :
             rs'[k].CurrentState # rs[k].CurrentState =>
                /\ Len(stateChan') > Len(stateChan)
                /\ k = i]_vars

\* the second wait return changed reader 2 only: its record is queued with
\* the old CurrentState, the table is updated, and nothing was emitted for
\* reader 1
C17_Witness ==
  /\ readPc = "select"
  /\ nWaits = 2
  /\ lastRecv[1] = 1
  /\ stateChan # <<>>
  /\ Head(stateChan).tag = <<2, 2>>
  /\ Head(stateChan).state.CurrentState # rs[2].CurrentState
  /\ Head(stateChan).state.EventState = rs[2].CurrentState
  /\ HasPresent(rs[1].CurrentState)

\* C18: with the token not signaled, a wait call that returns an error other
\* than a timeout makes waitForStatusChange return an error that wraps it:
\* read returns, the queue is closed, and no wait call and no record follow;
\* a wait call that returns no error makes waitForStatusChange return nil
\* and read goes on.
C18_WaitFailureIsFatal ==
  /\ [][(readPc = "waitsel" /\ ~ctxDone /\ readPc' # readPc /\ werr # Nil
           /\ ~ErrorsIs(werr, ErrTimeout)) =>
          /\ readPc' = "done"
          /\ err' # Nil
          /\ err' # werr
          /\ ErrorsIs(err', werr)
          /\ chanClosed'
          /\ stateChan' = stateChan
          /\ nWaits' = nWaits]_vars
  /\ [][(readPc = "waitsel" /\ ~ctxDone /\ readPc' # readPc /\ werr = Nil) =>
          /\ err' = Nil
          /\ readPc' \in {"select", "connect", "send"}
          /\ ~chanClosed']_vars
  /\ [][readPc = "done" =>
          /\ readPc' = "done"
          /\ chanClosed'
          /\ nWaits' = nWaits
          /\ Len(stateChan') <= Len(stateChan)]_vars

\* the second wait call failed; Serve is still handling the card of the
\* first wait return
C18_Witness ==
  /\ readPc = "done"
  /\ ~ctxDone
  /\ err = wrapError("error waiting for status change", ErrUnknownError)
  /\ nWaits = 2
  /\ chanClosed
  /\ servePc = "handler"

\* a Serve call starts: go actx.read(ctx, stateChan)
ServeCalled == servePc \in {"start", "returned"} /\ servePc' = "range"

\* C19: a goroutine running read is started only by the start of a Serve
\* call, one for each call; it closes the channel of its call exactly once,
\* when it returns, whatever makes it return; a Serve call that returns nil
\* leaves no read running and no card connection open, so a Serve call
\* starts its read only when the read of the call before it has returned.
C19_OneTaskPerServe ==
  /\ [][(readPc' = "select" /\ readPc \in {"idle", "done"}) <=> ServeCalled]_vars
  /\ [][ServeCalled => (readPc \in {"idle", "done"} /\ sessions = 0 /\ c = <<>>)]_vars
  /\ [][(readPc' = "done" /\ readPc # "done") => (~chanClosed /\ chanClosed')]_vars
  /\ [][chanClosed' # chanClosed =>
          \/ readPc' = "done" /\ readPc \notin {"idle", "done"}
          \/ ServeCalled]_vars
  /\ [](readPc = "done" <=> chanClosed)
  /\ []((servePc = "returned" /\ serveRet = Nil) =>
          /\ readPc = "done"
          /\ chanClosed
          /\ stateChan = <<>>
          /\ sessions = 0)

\* a second Serve call has its read in a wait call, with a new table, after
\* a first call that made one wait call and has returned
C19_Witness ==
  /\ nWaits = 1
  /\ lastRecv = <<1, NumReaders>>
  /\ \A k \in Readers : rs[k].CurrentState = StateUnaware
  /\ servePc = "range"
  /\ readPc = "call"
  /\ ~ctxDone
  /\ ~chanClosed

\* C20: a record is put on the queue only with no card connection open, and
\* a record holding a card only after the disconnect of that card's
\* connection; so when the Handler is given a card, and for as long as it
\* runs, a connection that is open is one read made later for another record.
C20_HandlerAfterDisconnect ==
  /\ [][Len(stateChan') > Len(stateChan) =>
          /\ sessions = 0
          /\ c = <<>>
          /\ rs[i].UserData.ptr # <<>> =>
                (ops = FullSequence /\ rs[i].UserData.ptr[1].uid \in UIDs)]_vars
  /\ [](servePc = "handler" =>
          /\ v # <<>>
          /\ sessions = 1 => TagLess(lastRecv, <<nWaits, i>>))
  /\ [](\A k \in 1..Len(stateChan) :
          sessions = 1 => TagLess(stateChan[k].tag, <<nWaits, i>>))

\* the Handler runs on the card of reader 1 while read has the connection
\* to the card of reader 2 open, in the same wait return
C20_Witness ==
  /\ servePc = "handler"
  /\ v[1].reader = 1
  /\ lastRecv = <<nWaits, 1>>
  /\ sessions = 1
  /\ readPc = "disconnect"
  /\ i = 2

\* C21: every record read puts on the queue with "present" in its EventState
\* holds a *card, pointing to a card or nil, and every other record holds the
\* untyped nil; so the dispatch loop never takes the failing case of its type
\* switch, Serve never returns ErrUnhandledCardData, and Serve returns only
\* on the closed, drained queue, when read has returned and is not blocked on
\* a send.
C21_EngineRecordsAreHandled ==
  /\ readPc = "send" =>
       /\ rs[i].UserData.type = (IF HasPresent(rs[i].EventState)
                                 THEN "*card" ELSE "nil")
       /\ Dispatch(rs[i]) # "unhandled"
  /\ \A k \in 1..Len(stateChan) :
       /\ stateChan[k].state.UserData.type =
             (IF HasPresent(stateChan[k].state.EventState) THEN "*card" ELSE "nil")
       /\ Dispatch(stateChan[k].state) # "unhandled"
  /\ serveRet = Nil
  /\ servePc = "returned" =>
       /\ readPc = "done"
       /\ chanClosed
       /\ stateChan = <<>>

\* read has returned after a failed connect of a later record, and Serve is
\* still in a Handler call with a record holding the nil *card queued
C21_Witness ==
  /\ readPc = "done"
  /\ ~ctxDone
  /\ connErr = ErrRemovedCard
  /\ stateChan # <<>>
  /\ HasPresent(Head(stateChan).state.EventState)
  /\ Head(stateChan).state.UserData = CardIface(<<>>)
  /\ servePc = "handler"
====
